---------------------------- MODULE Spec2Model ----------------------------
(***************************************************************************)
(* Model of the browser host of demo/src/main.ts: the loader (initWasm),   *)
(* the per-frame scheduler (frame), the key tracker (keydown / keyup       *)
(* listeners, consumeKeyFlags, key history) and the host calls a guest     *)
(* makes while its update export runs (proc_exit, grow_memory, fd_readdir, *)
(* the key queries).                                                       *)
(*                                                                         *)
(* JavaScript runs every handler to completion on one thread, so a handler *)
(* is one action.  frame calls into the guest, which calls back into the   *)
(* host: the call of update is split into FrameCallUpdate (frame entered,  *)
(* update invoked), the host calls made by the guest, and UpdateReturn     *)
(* (update returned, rest of frame); no other handler is enabled while     *)
(* pc = "inUpdate".                                                        *)
(***************************************************************************)
EXTENDS Integers, Sequences, FiniteSets, TLC

\* ------------------------------------------------------------------ bounds
FirstKeyCode == 65      \* lowest key code delivered
NumKeys == 2            \* key codes FirstKeyCode .. FirstKeyCode + NumKeys - 1
MaxEvents == 3          \* key events per session under Spec
MaxFrames == 3          \* animation frames delivered per session
MaxCalls == 2           \* host calls made by the guest per update
MaxPages == 2           \* initial pages of the guest's memory
MaxGrow == 1            \* largest grow_memory request
MaxExitCode == 1        \* exit codes 0 .. MaxExitCode
PageSize == 64          \* bytes per page (scaled down)
MaxFree == 3            \* freely chosen key events under SpecHist
MaxHistEvents == 67     \* key events per session under SpecHist
SurfW == 2              \* canvas width in pixels (scaled down)
SurfH == 2              \* canvas height in pixels (scaled down)
MaxSurfEvents == 1      \* key events per session under SpecSurf
MaxClock == 3           \* largest Date.now() reading, in ms since load

\* ------------------------------------------------------- program constants
MAX_HISTORY == 64
get_width == 1491
get_height == 900
NoExit == {}            \* proc_exit has not been called

Keys == FirstKeyCode .. (FirstKeyCode + NumKeys - 1)
ExitCodes == 0 .. MaxExitCode

\* The binary served at /terminal_app.wasm: whether instantiation accepts
\* it, which exports it has, and the initial size of its memory.
Guests == [valid : BOOLEAN, hasStart : BOOLEAN, hasUpdate : BOOLEAN,
           pages : 1 .. MaxPages]

VARIABLES
    guest,          \* the binary fetched by initWasm
    initPc,         \* position of the module top level / initWasm
    startFn,        \* startFn !== null
    updateFn,       \* updateFn !== null
    rafPending,     \* a requestAnimationFrame(frame) callback is scheduled
    pc,             \* "idle", or "inUpdate" while frame is inside update
    keyState, keyPressed, keyReleased, keyHistory,
    memPages,       \* pages of instance.exports.memory
    memory,         \* bytes of instance.exports.memory.buffer
    \* history variables (observations, not program state)
    startCalls,     \* times the start export was invoked
    updateCalls,    \* times the update export was invoked
    frames,         \* times frame ran
    calls,          \* host calls made in the current update
    exited,         \* {code passed to proc_exit}, or NoExit
    trapped,        \* a host call threw a RangeError inside update
    ticksSincePress,\* per key: updates begun since its last pressed edge (capped at 2)
    nEvents,        \* key events delivered
    recorded,       \* every transition ever pushed onto keyHistory, in order
    historySeq,     \* for each live keyHistory entry, its position in recorded
    lastGrow,       \* last grow_memory call: pages before, request, result
    lastAccess,     \* last fd_readdir call: pointer, outcome
    log,            \* texts passed to console.log, in order
    lastCall,       \* last emulated syscall: name, arguments, outcome, memory before it
    sizesQueried,   \* environ_sizes_get has been called in this session
    lastKeyEvent,   \* per key: kind of the last key event delivered for it
    tickMarks,      \* Len(recorded) when the previous and the current update began
    opens,          \* successful path_open calls: requested path, handle stored
    surface,        \* pixels of the canvas the 2D context draws on
    lastDraw,       \* last drawing call: name, rectangle, colour, tick
    prevDraw,       \* the drawing call before it
    wallClock,      \* Date.now(), in ms since the page was loaded
    timeReads,      \* values get_time_ms returned, in call order
    mouseX, mouseY, \* pointer position inside the canvas
    lastQuery,      \* last input or size query of the guest and its result
    lastMove,       \* position of the last mousemove event, << >> before the first
    updateArgs      \* arguments of the update call in progress, << >> outside one

vars == << guest, initPc, startFn, updateFn, rafPending, pc,
           keyState, keyPressed, keyReleased, keyHistory, memPages, memory,
           startCalls, updateCalls, frames, calls, exited, trapped,
           ticksSincePress, nEvents, recorded, historySeq, lastGrow, lastAccess,
           log, lastCall, sizesQueried, lastKeyEvent, tickMarks,
           opens, surface, lastDraw, prevDraw, wallClock, timeReads,
           mouseX, mouseY, lastQuery, lastMove, updateArgs >>

loaderVars == << guest, initPc, startFn, updateFn, startCalls >>
keyVars == << keyState, keyPressed, keyReleased, keyHistory,
              nEvents, recorded, historySeq, lastKeyEvent >>
sysVars == << log, lastCall, sizesQueried, opens >>
drawVars == << surface, lastDraw, prevDraw >>
timeVars == << wallClock, timeReads >>
inputVars == << mouseX, mouseY, lastQuery, lastMove >>
extVars == << drawVars, timeVars, inputVars >>
memVars == << memPages, memory, lastGrow, lastAccess, sysVars >>
schedVars == << rafPending, pc, updateCalls, frames, calls, exited, trapped,
                tickMarks, updateArgs >>

NoGrow == [before |-> 0, req |-> 0, ret |-> 0, made |-> FALSE]
NoAccess == [ptr |-> 0, ok |-> FALSE, made |-> FALSE, size |-> 0]
NoPrev == [name |-> "none", args |-> << >>, ok |-> FALSE]
NoCall == [name |-> "none", args |-> << >>, ok |-> FALSE, before |-> << >>,
           prev |-> NoPrev]
\* Pixels of the canvas, origin top-left, and the colour of a cleared
\* canvas (transparent black).
Pixels == (0 .. (SurfW - 1)) \X (0 .. (SurfH - 1))
Transparent == << 0, 0, 0, 0 >>
NoQuery == [name |-> "none", arg |-> 0, ret |-> 0]
NoDraw == [name |-> "none", args |-> << >>, rgba |-> << 0, 0, 0, 0 >>,
           tick |-> 0, made |-> FALSE]

\* ------------------------------------------------------------------ helpers
Min(a, b) == IF a < b THEN a ELSE b
Max(a, b) == IF a > b THEN a ELSE b

Pow2(n) == 2 ^ n

\* Bit i (0 .. 31) of the two's-complement 32-bit integer x.
Bit32(x, i) ==
    IF i = 31 THEN (IF x < 0 THEN 1 ELSE 0) ELSE (x \div Pow2(i)) % 2

RECURSIVE LowSum(_, _)
LowSum(bits, i) ==
    IF i < 0 THEN 0 ELSE bits[i] * Pow2(i) + LowSum(bits, i - 1)

\* The 32-bit integer with the given bits; bit 31 weighs -2^31.
FromBits32(bits) ==
    LowSum(bits, 30) + (IF bits[31] = 1 THEN (0 - Pow2(30)) * 2 ELSE 0)

\* x << n of ECMAScript: a 32-bit shift whose count is n modulo 32.
Shl32(x, n) ==
    LET c == n % 32
    IN  FromBits32([i \in 0 .. 31 |-> IF i >= c THEN Bit32(x, i - c) ELSE 0])

\* a | b of ECMAScript on 32-bit operands.
BitOr32(a, b) ==
    FromBits32([i \in 0 .. 31 |->
                  IF Bit32(a, i) = 1 \/ Bit32(b, i) = 1 THEN 1 ELSE 0])

MemSize == memPages * PageSize

\* ------------------------------------------------------------- key tracker
consumeKeyFlagsMut(flags) == flags
\* consumeKeyFlags: every flag of one edge map goes to false.
consumeKeyFlags(flags) == [k \in DOMAIN flags |-> FALSE]

HistoryPushNoEvict(h, e) == Append(h, e)
HistoryPushDropNewest(h, e) ==
    IF Len(h) + 1 > MAX_HISTORY THEN h ELSE Append(h, e)
\* keyHistory.push(e); if (keyHistory.length > MAX_HISTORY) keyHistory.shift();
HistoryPush(h, e) ==
    LET h1 == Append(h, e)
    IN  IF Len(h1) > MAX_HISTORY THEN Tail(h1) ELSE h1

listening == initPc \in {"awaitInstantiate", "done", "failed"}

keydownAlwaysRecords(code) ==
    /\ listening /\ pc = "idle"
    /\ keyPressed' = [keyPressed EXCEPT ![code] = TRUE]
    /\ keyHistory' = HistoryPush(keyHistory, [key |-> code, pressed |-> TRUE])
    /\ recorded' = Append(recorded, [key |-> code, pressed |-> TRUE])
    /\ historySeq' = HistoryPush(historySeq, Len(recorded) + 1)
    /\ ticksSincePress' = [ticksSincePress EXCEPT ![code] = 0]
    /\ keyState' = [keyState EXCEPT ![code] = TRUE]
    /\ nEvents' = nEvents + 1
    /\ lastKeyEvent' = [lastKeyEvent EXCEPT ![code] = "keydown"]
    /\ UNCHANGED << keyReleased, extVars, loaderVars, memVars, schedVars >>
\* the keydown listener
keydown(code) ==
    /\ listening /\ pc = "idle"
    /\ IF ~keyState[code]
       THEN /\ keyPressed' = [keyPressed EXCEPT ![code] = TRUE]
            /\ keyHistory' = HistoryPush(keyHistory, [key |-> code, pressed |-> TRUE])
            /\ recorded' = Append(recorded, [key |-> code, pressed |-> TRUE])
            /\ historySeq' = HistoryPush(historySeq, Len(recorded) + 1)
            /\ ticksSincePress' = [ticksSincePress EXCEPT ![code] = 0]
       ELSE UNCHANGED << keyPressed, keyHistory, recorded, historySeq, ticksSincePress >>
    /\ keyState' = [keyState EXCEPT ![code] = TRUE]
    /\ nEvents' = nEvents + 1
    /\ lastKeyEvent' = [lastKeyEvent EXCEPT ![code] = "keydown"]
    /\ UNCHANGED << keyReleased, extVars, loaderVars, memVars, schedVars >>

keyupClearsPressed(code) ==
    /\ listening /\ pc = "idle"
    /\ keyState' = [keyState EXCEPT ![code] = FALSE]
    /\ keyPressed' = [keyPressed EXCEPT ![code] = FALSE]
    /\ keyReleased' = [keyReleased EXCEPT ![code] = TRUE]
    /\ keyHistory' = HistoryPush(keyHistory, [key |-> code, pressed |-> FALSE])
    /\ recorded' = Append(recorded, [key |-> code, pressed |-> FALSE])
    /\ historySeq' = HistoryPush(historySeq, Len(recorded) + 1)
    /\ nEvents' = nEvents + 1
    /\ lastKeyEvent' = [lastKeyEvent EXCEPT ![code] = "keyup"]
    /\ UNCHANGED << ticksSincePress, extVars, loaderVars, memVars, schedVars >>
keyupKeepsLevel(code) ==
    /\ listening /\ pc = "idle"
    /\ keyReleased' = [keyReleased EXCEPT ![code] = TRUE]
    /\ keyHistory' = HistoryPush(keyHistory, [key |-> code, pressed |-> FALSE])
    /\ recorded' = Append(recorded, [key |-> code, pressed |-> FALSE])
    /\ historySeq' = HistoryPush(historySeq, Len(recorded) + 1)
    /\ nEvents' = nEvents + 1
    /\ lastKeyEvent' = [lastKeyEvent EXCEPT ![code] = "keyup"]
    /\ UNCHANGED << keyState, keyPressed, ticksSincePress, extVars, loaderVars, memVars,
                    schedVars >>
keyupNoReleasedEdge(code) ==
    /\ listening /\ pc = "idle"
    /\ keyState' = [keyState EXCEPT ![code] = FALSE]
    /\ keyHistory' = HistoryPush(keyHistory, [key |-> code, pressed |-> FALSE])
    /\ recorded' = Append(recorded, [key |-> code, pressed |-> FALSE])
    /\ historySeq' = HistoryPush(historySeq, Len(recorded) + 1)
    /\ nEvents' = nEvents + 1
    /\ lastKeyEvent' = [lastKeyEvent EXCEPT ![code] = "keyup"]
    /\ UNCHANGED << keyPressed, keyReleased, ticksSincePress, extVars, loaderVars,
                    memVars, schedVars >>
\* the keyup listener
keyup(code) ==
    /\ listening /\ pc = "idle"
    /\ keyState' = [keyState EXCEPT ![code] = FALSE]
    /\ keyReleased' = [keyReleased EXCEPT ![code] = TRUE]
    /\ keyHistory' = HistoryPush(keyHistory, [key |-> code, pressed |-> FALSE])
    /\ recorded' = Append(recorded, [key |-> code, pressed |-> FALSE])
    /\ historySeq' = HistoryPush(historySeq, Len(recorded) + 1)
    /\ nEvents' = nEvents + 1
    /\ lastKeyEvent' = [lastKeyEvent EXCEPT ![code] = "keyup"]
    /\ UNCHANGED << keyPressed, ticksSincePress, extVars, loaderVars, memVars, schedVars >>

\* ------------------------------------------------------------ input queries
is_key_down(keyCode) == IF keyState[keyCode] THEN 1 ELSE 0
is_key_pressed(keyCode) == IF keyPressed[keyCode] THEN 1 ELSE 0
is_key_released(keyCode) == IF keyReleased[keyCode] THEN 1 ELSE 0
get_key_history_count == Len(keyHistory)

\* (event.pressed ? (1 << 32) : 0) | event.key
PackEvent(event) ==
    BitOr32(IF event.pressed THEN Shl32(1, 32) ELSE 0, event.key)

get_key_history_eventClamped(index) ==
    IF keyHistory = << >> THEN 0
    ELSE PackEvent(keyHistory[Max(1, Min(Len(keyHistory), index + 1))])
get_key_history_event(index) ==
    IF index >= 0 /\ index < Len(keyHistory)
    THEN PackEvent(keyHistory[index + 1])
    ELSE 0


\* ------------------------------------------------------------------ loader
\* Module top level: initWasm() runs up to its first await (the fetch), then
\* the top level tests startFn and calls it when it is not null.
ModuleTopLevel ==
    /\ initPc = "module"
    /\ initPc' = "awaitFetch"
    /\ startCalls' = IF startFn THEN startCalls + 1 ELSE startCalls
    /\ UNCHANGED << extVars, guest, startFn, updateFn, keyVars, ticksSincePress,
                    memVars, schedVars >>

\* initWasm resumes with the fetched bytes: the key maps are created, the
\* listeners registered, consumeKeyFlags and the import table built, and
\* WebAssembly.instantiate is awaited.
FetchResolved ==
    /\ initPc = "awaitFetch"
    /\ initPc' = "awaitInstantiate"
    /\ UNCHANGED << extVars, guest, startFn, updateFn, startCalls, keyVars,
                    ticksSincePress, memVars, schedVars >>

StartExportFn(g) == g.hasStart
UpdateExportFnMut(g) == g.hasUpdate /\ g.hasStart
UpdateExportFn(g) == g.hasUpdate

\* WebAssembly.instantiate resolved: the exports are looked up and the
\* first frame is requested.
InstantiateOk ==
    /\ initPc = "awaitInstantiate" /\ pc = "idle"
    /\ guest.valid
    /\ initPc' = "done"
    /\ startFn' = StartExportFn(guest)
    /\ updateFn' = UpdateExportFn(guest)
    /\ memPages' = guest.pages
    /\ memory' = [i \in 0 .. (guest.pages * PageSize - 1) |-> 170]
    /\ rafPending' = TRUE
    /\ UNCHANGED << extVars, guest, startCalls, keyVars, ticksSincePress, lastGrow,
                    lastAccess, sysVars, pc, updateCalls, frames, calls, exited,
                    trapped, tickMarks, updateArgs >>

InstantiateFailStillSchedules ==
    /\ initPc = "awaitInstantiate" /\ pc = "idle"
    /\ ~guest.valid
    /\ initPc' = "failed"
    /\ rafPending' = TRUE
    /\ UNCHANGED << extVars, guest, startFn, updateFn, startCalls, keyVars,
                    ticksSincePress, memVars, pc, updateCalls, frames, calls,
                    exited, trapped, tickMarks, updateArgs >>
\* WebAssembly.instantiate rejected (malformed binary or unresolved
\* import): initWasm ends with the rejection, nothing after line 445 runs.
InstantiateFail ==
    /\ initPc = "awaitInstantiate" /\ pc = "idle"
    /\ ~guest.valid
    /\ initPc' = "failed"
    /\ UNCHANGED << extVars, guest, startFn, updateFn, startCalls, keyVars,
                    ticksSincePress, memVars, schedVars >>

\* --------------------------------------------------------------- scheduler
UpdateArgumentsOrigin == << 0, 0 >>
\* The arguments frame passes to update.
UpdateArguments == << mouseX, mouseY >>

FrameRequestsNextFirst ==
    /\ rafPending /\ pc = "idle" /\ frames < MaxFrames
    /\ updateFn
    /\ rafPending' = TRUE
    /\ pc' = "inUpdate"
    /\ frames' = frames + 1
    /\ updateCalls' = updateCalls + 1
    /\ calls' = 0
    /\ ticksSincePress' = [k \in Keys |-> Min(ticksSincePress[k] + 1, 2)]
    /\ tickMarks' = << tickMarks[2], Len(recorded) >>
    /\ updateArgs' = UpdateArguments
    /\ UNCHANGED << extVars, loaderVars, keyVars, memVars, exited, trapped >>
\* frame with updateFn set, up to the call of update.
FrameCallUpdate ==
    /\ rafPending /\ pc = "idle" /\ frames < MaxFrames
    /\ updateFn
    /\ rafPending' = FALSE
    /\ pc' = "inUpdate"
    /\ frames' = frames + 1
    /\ updateCalls' = updateCalls + 1
    /\ calls' = 0
    /\ ticksSincePress' = [k \in Keys |-> Min(ticksSincePress[k] + 1, 2)]
    /\ tickMarks' = << tickMarks[2], Len(recorded) >>
    /\ updateArgs' = UpdateArguments
    /\ UNCHANGED << extVars, loaderVars, keyVars, memVars, exited, trapped >>

FrameNoUpdateStops ==
    /\ rafPending /\ pc = "idle" /\ frames < MaxFrames
    /\ ~updateFn
    /\ rafPending' = FALSE
    /\ frames' = frames + 1
    /\ UNCHANGED << extVars, loaderVars, keyVars, ticksSincePress, memVars, pc,
                    updateCalls, calls, exited, trapped, tickMarks, updateArgs >>
\* frame with updateFn null: only the next frame is requested.
FrameNoUpdate ==
    /\ rafPending /\ pc = "idle" /\ frames < MaxFrames
    /\ ~updateFn
    /\ rafPending' = TRUE
    /\ frames' = frames + 1
    /\ UNCHANGED << extVars, loaderVars, keyVars, ticksSincePress, memVars, pc,
                    updateCalls, calls, exited, trapped, tickMarks, updateArgs >>

UpdateReturnNoRequest ==
    /\ pc = "inUpdate"
    /\ keyPressed' = consumeKeyFlags(keyPressed)
    /\ keyReleased' = consumeKeyFlags(keyReleased)
    /\ rafPending' = FALSE
    /\ pc' = "idle"
    /\ updateArgs' = << >>
    /\ UNCHANGED << extVars, loaderVars, keyState, keyHistory, nEvents, recorded,
                    historySeq, lastKeyEvent, ticksSincePress, memVars,
                    updateCalls, frames, calls, exited, trapped, tickMarks >>
UpdateReturnClearsCanvas ==
    /\ pc = "inUpdate"
    /\ keyPressed' = consumeKeyFlags(keyPressed)
    /\ keyReleased' = consumeKeyFlags(keyReleased)
    /\ rafPending' = TRUE
    /\ pc' = "idle"
    /\ updateArgs' = << >>
    /\ surface' = [p \in DOMAIN surface |-> << 0, 0, 0, 0 >>]
    /\ UNCHANGED << lastDraw, prevDraw, timeVars, inputVars, loaderVars, keyState,
                    keyHistory, nEvents, recorded,
                    historySeq, lastKeyEvent, ticksSincePress, memVars,
                    updateCalls, frames, calls, exited, trapped, tickMarks >>
\* update returned: consumeKeyFlags(), requestAnimationFrame(frame).
UpdateReturn ==
    /\ pc = "inUpdate"
    /\ keyPressed' = consumeKeyFlags(keyPressed)
    /\ keyReleased' = consumeKeyFlags(keyReleased)
    /\ rafPending' = TRUE
    /\ pc' = "idle"
    /\ updateArgs' = << >>
    /\ UNCHANGED << extVars, loaderVars, keyState, keyHistory, nEvents, recorded,
                    historySeq, lastKeyEvent, ticksSincePress, memVars,
                    updateCalls, frames, calls, exited, trapped, tickMarks >>

frame == FrameCallUpdate \/ FrameNoUpdate

\* An exception thrown by a host call propagates through update out of
\* frame: neither consumeKeyFlags nor requestAnimationFrame runs.
ThrowOutOfFrameMut == pc' = pc /\ rafPending' = rafPending
ThrowOutOfFrame == pc' = "idle" /\ rafPending' = rafPending

\* -------------------------------------------- host calls made inside update
GuestMayCall == pc = "inUpdate" /\ calls < MaxCalls

\* proc_exit: throw new Error("WASM exit: " + code)
proc_exit(code) ==
    /\ GuestMayCall
    /\ exited' = {code}
    /\ calls' = calls + 1
    /\ ThrowOutOfFrame
    /\ UNCHANGED << extVars, loaderVars, keyVars, ticksSincePress, memVars,
                    updateCalls, frames, trapped, tickMarks, updateArgs >>

\* grow_memory: (_pages) => 1
grow_memory_result(pages) == 1

\* Bytes of a memory of n pages that keeps the content of mem; pages that
\* are new read as zero.
Resized(mem, n) ==
    [i \in 0 .. (n * PageSize - 1) |-> IF i \in DOMAIN mem THEN mem[i] ELSE 0]

grow_memory_pagesMut(pages) == pages
\* Page count of the guest memory after grow_memory: the function body
\* does not touch the memory.
grow_memory_pages(pages) == memPages

grow_memory(pages) ==
    /\ GuestMayCall
    /\ calls' = calls + 1
    /\ lastGrow' = [before |-> memPages, req |-> pages,
                    ret |-> grow_memory_result(pages), made |-> TRUE]
    /\ lastAccess' = NoAccess
    /\ memPages' = grow_memory_pages(pages)
    /\ memory' = Resized(memory, grow_memory_pages(pages))
    /\ UNCHANGED << extVars, loaderVars, keyVars, ticksSincePress, sysVars,
                    rafPending, pc, updateCalls, frames, exited, trapped,
                    tickMarks, updateArgs >>

\* The guest executes the memory.grow instruction on its own memory (the
\* WebAssembly.Memory the host reads as instance.exports.memory).
memory_grow(delta) ==
    /\ GuestMayCall
    /\ memPages + delta <= MaxPages + MaxGrow
    /\ calls' = calls + 1
    /\ memPages' = memPages + delta
    /\ memory' = Resized(memory, memPages + delta)
    /\ UNCHANGED << extVars, loaderVars, keyVars, ticksSincePress, lastGrow, lastAccess,
                    sysVars, rafPending, pc, updateCalls, frames, exited,
                    trapped, tickMarks, updateArgs >>

InBoundsAtInstantiate(ptr, len) ==
    ptr >= 0 /\ len >= 0 /\ ptr <= guest.pages * PageSize
        /\ len <= guest.pages * PageSize - ptr
\* DataView.setUint32(ptr, ...) throws a RangeError unless the four bytes
\* lie inside the buffer.
InBounds(ptr, len) ==
    ptr >= 0 /\ len >= 0 /\ ptr <= MemSize /\ len <= MemSize - ptr

\* fd_readdir: new DataView(memory.buffer).setUint32(bufused_ptr, 0, true)
fd_readdir(bufused_ptr) ==
    /\ GuestMayCall
    /\ calls' = calls + 1
    /\ lastAccess' = [ptr |-> bufused_ptr, ok |-> InBounds(bufused_ptr, 4),
                      made |-> TRUE, size |-> MemSize]
    /\ IF InBounds(bufused_ptr, 4)
       THEN /\ memory' = [i \in DOMAIN memory |->
                            IF i >= bufused_ptr /\ i < bufused_ptr + 4
                            THEN 0 ELSE memory[i]]
            /\ UNCHANGED << pc, rafPending, trapped >>
       ELSE /\ ThrowOutOfFrame
            /\ trapped' = TRUE
            /\ UNCHANGED memory
    /\ UNCHANGED << extVars, loaderVars, keyVars, ticksSincePress, memPages, lastGrow,
                    sysVars, updateCalls, frames, exited, tickMarks, updateArgs >>

\* ------------------------------------------------ guest memory through views
\* Largest integer the model computes with; an unsigned 32-bit value at or
\* above 2^31 reads as this one (it exceeds every memory size modelled, so
\* every range check on it has the same outcome).
Huge == (Pow2(30) - 1) + Pow2(30)

\* DataView.getUint32(p, true): four bytes, little-endian.
GetUint32(mem, p) ==
    IF mem[p + 3] >= 128 THEN Huge
    ELSE mem[p] + 256 * mem[p + 1] + 65536 * mem[p + 2] + 16777216 * mem[p + 3]

\* The four little-endian bytes DataView.setUint32(p, v, true) stores.
U32Bytes(v) ==
    << v % 256, (v \div 256) % 256, (v \div 65536) % 256, (v \div 16777216) % 256 >>

\* Uint8Array.set / DataView.set*: bytes stored from ptr on.
SetBytes(mem, ptr, bytes) ==
    [i \in DOMAIN mem |->
        IF i >= ptr /\ i < ptr + Len(bytes) THEN bytes[i - ptr + 1] ELSE mem[i]]

ZerosShort(n) == [i \in 1 .. (n - 1) |-> 0]
Zeros(n) == [i \in 1 .. n |-> 0]

\* Outcome of a host call: returned (ok) or threw, and the memory and the
\* console log it leaves.
Returned(mem, lg) == [ok |-> TRUE, mem |-> mem, log |-> lg]
Threw(mem, lg) == [ok |-> FALSE, mem |-> mem, log |-> lg]

FillZeroClamped(mem, lg, ptr, len) ==
    Returned([i \in DOMAIN mem |-> IF i >= ptr /\ i < ptr + len THEN 0 ELSE mem[i]], lg)
\* new Uint8Array(memory.buffer, ptr, len).fill(0): the constructor throws a
\* RangeError unless the range lies inside the buffer.
FillZero(mem, lg, ptr, len) ==
    IF InBounds(ptr, len) THEN Returned(SetBytes(mem, ptr, Zeros(len)), lg)
    ELSE Threw(mem, lg)

\* new DataView(memory.buffer).setUint32(ptr, v, true)
SetUint32(mem, lg, ptr, v) ==
    IF InBounds(ptr, 4) THEN Returned(SetBytes(mem, ptr, U32Bytes(v)), lg)
    ELSE Threw(mem, lg)

\* ----------------------------------------------------------- text encoding
\* TextEncoder.encode of a string given as its UTF-16 code units (no
\* surrogates): one, two or three bytes per unit.
Utf8EncodeShifted(units) == [i \in DOMAIN units |-> (units[i] + 1) % 128]
RECURSIVE Utf8Encode(_)
Utf8Encode(units) ==
    IF units = << >> THEN << >>
    ELSE LET u == Head(units)
             b == IF u < 128 THEN << u >>
                  ELSE IF u < 2048 THEN << 192 + (u \div 64), 128 + (u % 64) >>
                  ELSE << 224 + (u \div 4096), 128 + ((u \div 64) % 64), 128 + (u % 64) >>
         IN  b \o Utf8Encode(Tail(units))

\* TextDecoder.decode of bytes, as code units: one-byte and two-byte
\* sequences are decoded, every other byte yields U+FFFD.
RECURSIVE Utf8Decode(_)
Utf8Decode(bytes) ==
    IF bytes = << >> THEN << >>
    ELSE LET b == Head(bytes)
         IN  IF b < 128 THEN << b >> \o Utf8Decode(Tail(bytes))
             ELSE IF /\ b >= 194 /\ b < 224 /\ Len(bytes) >= 2
                     /\ bytes[2] >= 128 /\ bytes[2] < 192
                  THEN << (b - 192) * 64 + (bytes[2] - 128) >>
                         \o Utf8Decode(Tail(Tail(bytes)))
                  ELSE << 65533 >> \o Utf8Decode(Tail(bytes))

\* ------------------------------------------------------------- environment
\* ENVIRON = ["PATH=/usr/bin", "HOME=/root", "USER=agave"], as code units.
ENVIRON ==
    << << 80, 65, 84, 72, 61, 47, 117, 115, 114, 47, 98, 105, 110 >>,
       << 72, 79, 77, 69, 61, 47, 114, 111, 111, 116 >>,
       << 85, 83, 69, 82, 61, 97, 103, 97, 118, 101 >> >>

RECURSIVE JoinNoNul(_)
JoinNoNul(entries) ==
    IF entries = << >> THEN << >>
    ELSE Head(entries) \o JoinNoNul(Tail(entries))
RECURSIVE JoinNul(_)
\* ENVIRON.map((e) => e + "\0").join("")
JoinNul(entries) ==
    IF entries = << >> THEN << >>
    ELSE (Head(entries) \o << 0 >>) \o JoinNul(Tail(entries))

ENVIRON_BUF == JoinNul(ENVIRON)

\* environ_sizes_get: count, then total size; the second store is not
\* reached when the first throws.
environ_sizes_get_result(mem, lg, count_ptr, buf_size_ptr) ==
    LET r1 == SetUint32(mem, lg, count_ptr, Len(ENVIRON))
    IN  IF ~r1.ok THEN r1
        ELSE SetUint32(r1.mem, lg, buf_size_ptr, Len(ENVIRON_BUF))

RECURSIVE EnvironLoop(_, _, _, _, _, _)
\* The loop of environ_get from entry i on; buf_offset bytes are written.
EnvironLoop(mem, lg, environ, environ_buf, i, buf_offset) ==
    IF i >= Len(ENVIRON) THEN Returned(mem, lg)
    ELSE LET r1 == SetUint32(mem, lg, environ + i * 4, environ_buf + buf_offset)
             bytes == Utf8Encode(ENVIRON[i + 1] \o << 0 >>)
         IN  IF ~r1.ok THEN r1
             ELSE IF ~InBounds(environ_buf + buf_offset, Len(bytes))
                  THEN Threw(r1.mem, lg)
                  ELSE EnvironLoop(SetBytes(r1.mem, environ_buf + buf_offset, bytes),
                                   lg, environ, environ_buf, i + 1,
                                   buf_offset + Len(bytes))

environ_get_needs_sizes(mem, lg, environ, environ_buf) ==
    IF sizesQueried THEN EnvironLoop(mem, lg, environ, environ_buf, 0, 0)
    ELSE Returned(mem, lg)
environ_get_result(mem, lg, environ, environ_buf) ==
    EnvironLoop(mem, lg, environ, environ_buf, 0, 0)

\* ------------------------------------------------------------------ fd_write
RECURSIVE FdWriteLoopAnyFd(_, _, _, _, _, _, _)
FdWriteLoopAnyFd(mem, lg, fd, iovs, iovs_len, i, written) ==
    IF i >= iovs_len THEN [ok |-> TRUE, written |-> written, log |-> lg]
    ELSE IF ~InBounds(iovs + i * 8, 4) \/ ~InBounds(iovs + i * 8 + 4, 4)
         THEN [ok |-> FALSE, written |-> written, log |-> lg]
         ELSE LET ptr == GetUint32(mem, iovs + i * 8)
                  len == GetUint32(mem, iovs + i * 8 + 4)
              IN  IF ~InBounds(ptr, len)
                  THEN [ok |-> FALSE, written |-> written, log |-> lg]
                  ELSE LET text == Utf8Decode([j \in 1 .. len |-> mem[ptr + j - 1]])
                       IN  FdWriteLoopAnyFd(mem, Append(lg, text),
                                            fd, iovs, iovs_len, i + 1, written + len)
RECURSIVE FdWriteLoop(_, _, _, _, _, _, _)
\* The loop of fd_write from iovec i on: [ok, written, log].
FdWriteLoop(mem, lg, fd, iovs, iovs_len, i, written) ==
    IF i >= iovs_len THEN [ok |-> TRUE, written |-> written, log |-> lg]
    ELSE IF ~InBounds(iovs + i * 8, 4) \/ ~InBounds(iovs + i * 8 + 4, 4)
         THEN [ok |-> FALSE, written |-> written, log |-> lg]
         ELSE LET ptr == GetUint32(mem, iovs + i * 8)
                  len == GetUint32(mem, iovs + i * 8 + 4)
              IN  IF ~InBounds(ptr, len)
                  THEN [ok |-> FALSE, written |-> written, log |-> lg]
                  ELSE LET text == Utf8Decode([j \in 1 .. len |-> mem[ptr + j - 1]])
                       IN  FdWriteLoop(mem,
                                       IF fd = 1 \/ fd = 2 THEN Append(lg, text) ELSE lg,
                                       fd, iovs, iovs_len, i + 1, written + len)

fd_write_result(mem, lg, fd, iovs, iovs_len, nwritten_ptr) ==
    LET r == FdWriteLoop(mem, lg, fd, iovs, iovs_len, 0, 0)
    IN  IF ~r.ok THEN Threw(mem, r.log)
        ELSE SetUint32(mem, r.log, nwritten_ptr, r.written)

\* ---------------------------------------------------------------- stat stubs
fd_fdstat_get_result(mem, lg, fd, stat_ptr) == FillZero(mem, lg, stat_ptr, 24)
fd_prestat_get_result(mem, lg, fd, prestat_ptr) == FillZero(mem, lg, prestat_ptr, 8)
fd_filestat_get_result(mem, lg, fd, filestat_ptr) == FillZero(mem, lg, filestat_ptr, 56)

path_filestat_get_result(mem, lg, fd, flags, path_ptr, path_len, filestat_ptr) ==
    FillZero(mem, lg, filestat_ptr, 56)

\* ------------------------------------------------------- fd_read, path_open
fd_read_reports_iovecs(mem, lg, fd, iovs, iovs_len, nread_ptr) ==
    SetUint32(mem, lg, nread_ptr, iovs_len)
\* fd_read: setUint32(nread_ptr, 0, true); return 0
fd_read_result(mem, lg, fd, iovs, iovs_len, nread_ptr) ==
    SetUint32(mem, lg, nread_ptr, 0)

path_open_fresh_handle(mem, lg, fd, dirflags, path_ptr, path_len, oflags, fs_rights_base, fs_rights_inheriting, fdflags, opened_fd_ptr) ==
    SetUint32(mem, lg, opened_fd_ptr, 3 + Len(opens))
\* path_open: setUint32(opened_fd_ptr, 3, true); return 0
path_open_result(mem, lg, fd, dirflags, path_ptr, path_len, oflags, fs_rights_base, fs_rights_inheriting, fdflags, opened_fd_ptr) ==
    SetUint32(mem, lg, opened_fd_ptr, 3)

\* A host call that returns 0 unless it throws: the guest goes on after a
\* return; an exception leaves update and frame.
HostCall(name, args, res) ==
    /\ GuestMayCall
    /\ calls' = calls + 1
    /\ lastCall' = [name |-> name, args |-> args, ok |-> res.ok, before |-> memory,
                    prev |-> [name |-> lastCall.name, args |-> lastCall.args,
                              ok |-> lastCall.ok]]
    /\ opens' = IF name = "path_open" /\ res.ok
                THEN Append(opens, [path |-> << args[3], args[4] >>,
                                    fd |-> GetUint32(res.mem, args[9])])
                ELSE opens
    /\ memory' = res.mem
    /\ log' = res.log
    /\ sizesQueried' = (sizesQueried \/ name = "environ_sizes_get")
    /\ IF res.ok
       THEN UNCHANGED << pc, rafPending, trapped >>
       ELSE ThrowOutOfFrame /\ trapped' = TRUE
    /\ UNCHANGED << extVars, loaderVars, keyVars, ticksSincePress, memPages, lastGrow,
                    lastAccess, updateCalls, frames, exited, tickMarks, updateArgs >>

fd_write(fd, iovs, iovs_len, nwritten_ptr) ==
    HostCall("fd_write", << fd, iovs, iovs_len, nwritten_ptr >>,
             fd_write_result(memory, log, fd, iovs, iovs_len, nwritten_ptr))

environ_sizes_get(count_ptr, buf_size_ptr) ==
    HostCall("environ_sizes_get", << count_ptr, buf_size_ptr >>,
             environ_sizes_get_result(memory, log, count_ptr, buf_size_ptr))

environ_get(environ, environ_buf) ==
    HostCall("environ_get", << environ, environ_buf >>,
             environ_get_result(memory, log, environ, environ_buf))

fd_fdstat_get(fd, stat_ptr) ==
    HostCall("fd_fdstat_get", << fd, stat_ptr >>,
             fd_fdstat_get_result(memory, log, fd, stat_ptr))

fd_prestat_get(fd, prestat_ptr) ==
    HostCall("fd_prestat_get", << fd, prestat_ptr >>,
             fd_prestat_get_result(memory, log, fd, prestat_ptr))

fd_filestat_get(fd, filestat_ptr) ==
    HostCall("fd_filestat_get", << fd, filestat_ptr >>,
             fd_filestat_get_result(memory, log, fd, filestat_ptr))

path_filestat_get(fd, flags, path_ptr, path_len, filestat_ptr) ==
    HostCall("path_filestat_get", << fd, flags, path_ptr, path_len, filestat_ptr >>,
             path_filestat_get_result(memory, log, fd, flags, path_ptr, path_len,
                                      filestat_ptr))

fd_read(fd, iovs, iovs_len, nread_ptr) ==
    HostCall("fd_read", << fd, iovs, iovs_len, nread_ptr >>,
             fd_read_result(memory, log, fd, iovs, iovs_len, nread_ptr))

path_open(fd, dirflags, path_ptr, path_len, oflags, fs_rights_base, fs_rights_inheriting, fdflags, opened_fd_ptr) ==
    HostCall("path_open",
             << fd, dirflags, path_ptr, path_len, oflags, fs_rights_base,
                fs_rights_inheriting, fdflags, opened_fd_ptr >>,
             path_open_result(memory, log, fd, dirflags, path_ptr, path_len,
                              oflags, fs_rights_base, fs_rights_inheriting,
                              fdflags, opened_fd_ptr))

\* The guest stores a table of iovecs (ptr, len pairs) into its own memory
\* before it calls fd_write.
guest_store_iovecs(at, iovecs) ==
    /\ GuestMayCall
    /\ InBounds(at, 8 * Len(iovecs))
    /\ calls' = calls + 1
    /\ memory' = SetBytes(memory, at,
                          IF Len(iovecs) = 1
                          THEN U32Bytes(iovecs[1][1]) \o U32Bytes(iovecs[1][2])
                          ELSE U32Bytes(iovecs[1][1]) \o U32Bytes(iovecs[1][2])
                               \o U32Bytes(iovecs[2][1]) \o U32Bytes(iovecs[2][2]))
    /\ lastCall' = [name |-> "guest_store", args |-> << at >>, ok |-> TRUE,
                    before |-> memory,
                    prev |-> [name |-> lastCall.name, args |-> lastCall.args,
                              ok |-> lastCall.ok]]
    /\ UNCHANGED << extVars, loaderVars, keyVars, ticksSincePress, memPages, lastGrow,
                    lastAccess, log, sizesQueried, opens, rafPending, pc, updateCalls,
                    frames, exited, trapped, tickMarks, updateArgs >>

\* Arguments the guest passes: descriptors, and pointers in the middle of
\* its memory and around its end.
Fds == {1, 2, 3}
IovecLists ==
    { << << 24, 2 >> >>,
      << << 24, 2 >>, << MemSize - 3, 3 >> >>,
      << << 24, 2 >>, << MemSize - 3, 4 >> >> }
StatPtrs(len) == { 0, MemSize - len, MemSize - len + 1 }
\* Paths (pointer, length) the guest names: one inside its memory, one that
\* runs beyond its end.
Paths == { << 24, 2 >>, << MemSize - 1, 8 >> }

SysCall ==
    \/ \E l \in IovecLists : guest_store_iovecs(0, l)
    \/ \E fd \in Fds, iovs \in {0, MemSize - 4}, n \in 0 .. 2,
          np \in {16, MemSize - 3} : fd_write(fd, iovs, n, np)
    \/ \E cp \in {0, MemSize - 3}, bp \in {4, MemSize - 3} :
          environ_sizes_get(cp, bp)
    \/ \E e \in {0, MemSize - 8},
          b \in {4, 16, MemSize - Len(ENVIRON_BUF), MemSize - Len(ENVIRON_BUF) + 1} :
          environ_get(e, b)
    \/ \E fd \in Fds, p \in StatPtrs(24) : fd_fdstat_get(fd, p)
    \/ \E fd \in Fds, p \in StatPtrs(8) : fd_prestat_get(fd, p)
    \/ \E fd \in Fds, p \in StatPtrs(56) : fd_filestat_get(fd, p)

\* The file-system stubs a guest's runtime calls.
FsCall ==
    \/ \E fd \in Fds, p \in StatPtrs(24) : fd_fdstat_get(fd, p)
    \/ \E fd \in Fds, p \in StatPtrs(8) : fd_prestat_get(fd, p)
    \/ \E fd \in Fds, p \in StatPtrs(56) : fd_filestat_get(fd, p)
    \/ \E path \in Paths, p \in StatPtrs(56) :
          path_filestat_get(3, 0, path[1], path[2], p)
    \/ \E fd \in {0, 3}, iovs \in {0, MemSize - 4}, n \in 1 .. 2,
          np \in {16, MemSize - 3} : fd_read(fd, iovs, n, np)
    \/ \E path \in Paths, oflags \in 0 .. 1, rights \in 0 .. 1,
          p \in {16, MemSize - 3} :
          path_open(3, 0, path[1], path[2], oflags, rights, rights, 0, p)

\* ------------------------------------------------------- pointer and queries
\* The mousemove listener of the canvas, registered when the module loads.
mousemove(x, y) ==
    /\ pc = "idle"
    /\ mouseX' = x
    /\ mouseY' = y
    /\ lastMove' = << x, y >>
    /\ UNCHANGED << drawVars, timeVars, lastQuery, loaderVars, keyVars,
                    ticksSincePress, memVars, schedVars >>

\* An import that only returns a value to the guest.
Query(name, arg, ret) ==
    /\ GuestMayCall
    /\ calls' = calls + 1
    /\ lastQuery' = [name |-> name, arg |-> arg, ret |-> ret]
    /\ UNCHANGED << drawVars, timeVars, mouseX, mouseY, lastMove, loaderVars, keyVars,
                    ticksSincePress, memVars, rafPending, pc, updateCalls,
                    frames, exited, trapped, tickMarks, updateArgs >>

InputQuery(k) ==
    \/ Query("is_key_down", k, is_key_down(k))
    \/ Query("is_key_pressed", k, is_key_pressed(k))
    \/ Query("is_key_released", k, is_key_released(k))
    \/ Query("get_key_history_count", 0, get_key_history_count)
    \/ Query("get_key_history_event", 0, get_key_history_event(0))
    \/ Query("get_width", 0, get_width)
    \/ Query("get_height", 0, get_height)

\* The guest asks for the history entry at an index of its choice.
HistoryQuery(index) ==
    Query("get_key_history_event", index, get_key_history_event(index))

\* -------------------------------------------------------------------- time
\* Time passes: Date.now() follows the system clock.
ClockAdvance ==
    /\ wallClock < MaxClock
    /\ wallClock' = wallClock + 1
    /\ UNCHANGED << drawVars, inputVars, timeReads, loaderVars, keyVars,
                    ticksSincePress, memVars, schedVars >>

\* The system clock is set back (a time synchronisation, or the user):
\* Date.now() is the wall clock, not a monotonic counter.
ClockSetBack ==
    /\ \E t \in 0 .. (wallClock - 1) : wallClock' = t
    /\ UNCHANGED << drawVars, inputVars, timeReads, loaderVars, keyVars,
                    ticksSincePress, memVars, schedVars >>

\* get_time_ms: () => BigInt(Date.now())
get_time_ms ==
    /\ GuestMayCall
    /\ calls' = calls + 1
    /\ timeReads' = Append(timeReads, wallClock)
    /\ UNCHANGED << drawVars, inputVars, wallClock, loaderVars, keyVars,
                    ticksSincePress, memVars, rafPending, pc, updateCalls,
                    frames, exited, trapped, tickMarks, updateArgs >>

\* ------------------------------------------------------------------ drawing
\* A colour channel of the CSS colour rgba(r,g,b,a/255): values outside
\* 0 .. 255 are clamped.
Channel(v) == Max(0, Min(255, v))

\* Pixel left by painting colour rgba over dst with the default
\* source-over compositing: replaced when the colour is opaque, kept when
\* it is fully transparent, mixed in proportion otherwise.
PaintOver(dst, rgba) ==
    LET a == Channel(rgba[4])
        src == << Channel(rgba[1]), Channel(rgba[2]), Channel(rgba[3]), 255 >>
    IN  IF a = 255 THEN src
        ELSE IF a = 0 THEN dst
        ELSE [c \in 1 .. 4 |-> (src[c] * a + dst[c] * (255 - a)) \div 255]

\* ctx.fillRect(x, y, width, height): the pixels of the rectangle, which a
\* negative width or height extends to the left or upwards; pixels outside
\* the canvas are clipped.
FillRectPixels(x, y, width, height) ==
    { p \in Pixels :
        /\ Min(x, x + width) <= p[1] /\ p[1] < Max(x, x + width)
        /\ Min(y, y + height) <= p[2] /\ p[2] < Max(y, y + height) }

FromToPixelsInclusive(x0, y0, x1, y1) ==
    { p \in Pixels : x0 <= p[1] /\ p[1] <= x1 /\ y0 <= p[2] /\ p[2] <= y1 }
\* The loops of set_pixels_from_to: fillRect(x, y, 1, 1) for y0 <= y < y1
\* and x0 <= x < x1.
FromToPixels(x0, y0, x1, y1) ==
    { p \in Pixels : x0 <= p[1] /\ p[1] < x1 /\ y0 <= p[2] /\ p[2] < y1 }

PaintedDeferred(surf, pixels, rgba) == surf
\* The canvas after the pixels were filled with fillStyle rgba.
Painted(surf, pixels, rgba) ==
    [p \in Pixels |-> IF p \in pixels THEN PaintOver(surf[p], rgba) ELSE surf[p]]

\* A drawing import called by the guest inside update: the 2D context
\* paints at once.
DrawCall(name, args, pixels, rgba) ==
    /\ GuestMayCall
    /\ calls' = calls + 1
    /\ surface' = Painted(surface, pixels, rgba)
    /\ lastDraw' = [name |-> name, args |-> args, rgba |-> rgba,
                    tick |-> updateCalls, made |-> TRUE]
    /\ prevDraw' = lastDraw
    /\ UNCHANGED << timeVars, inputVars, loaderVars, keyVars, ticksSincePress,
                    memVars, rafPending, pc, updateCalls, frames, exited,
                    trapped, tickMarks, updateArgs >>

fill_rectangle(x, y, width, height, r, g, b, a) ==
    DrawCall("fill_rectangle", << x, y, width, height >>,
             FillRectPixels(x, y, width, height), << r, g, b, a >>)

set_pixel(x, y, r, g, b, a) ==
    DrawCall("set_pixel", << x, y >>, FillRectPixels(x, y, 1, 1), << r, g, b, a >>)

set_pixels_from_to(x0, y0, x1, y1, r, g, b, a) ==
    DrawCall("set_pixels_from_to", << x0, y0, x1, y1 >>,
             FromToPixels(x0, y0, x1, y1), << r, g, b, a >>)

\* Rectangles the guest fills: the whole canvas, its first pixel, one given
\* with a negative width, one that runs over the canvas edge.
Rects ==
    { << 0, 0, SurfW, SurfH >>, << 0, 0, 1, 1 >>, << 1, 0, -1, 1 >>,
      << SurfW - 1, SurfH - 1, 2, 2 >> }
\* Colours: red, and a blue given beyond the channel range.
Colours == { << 255, 0, 0 >>, << 0, 0, 300 >> }
Alphas == { 0, 255 }
\* Corner pairs of the bulk fill: the first row from its second pixel, the
\* same with x1 below x0, the first row whole, and one with y1 equal to y0.
FromTos ==
    { << 1, 0, SurfW, 1 >>, << 1, 0, 0, 1 >>, << 0, 0, SurfW, 1 >>,
      << 0, 1, SurfW, 1 >> }

Draw ==
    \/ \E rc \in Rects, c \in Colours, a \in Alphas :
          fill_rectangle(rc[1], rc[2], rc[3], rc[4], c[1], c[2], c[3], a)
    \/ \E x \in {0, SurfW}, c \in Colours :
          set_pixel(x, 0, c[1], c[2], c[3], 255)
    \/ \E ft \in FromTos, c \in Colours :
          set_pixels_from_to(ft[1], ft[2], ft[3], ft[4], c[1], c[2], c[3], 255)

\* Result pointers the guest passes: around the end of its memory and of
\* the pages it asked for.
AccessPtrs ==
    { MemSize - 4, MemSize - 3, MemSize,
      MemSize + lastGrow.req * PageSize - 4,
      MemSize + lastGrow.req * PageSize - 3 }

GuestCall ==
    \/ \E code \in ExitCodes : proc_exit(code)
    \/ \E pages \in 0 .. MaxGrow : grow_memory(pages)
    \/ \E p \in AccessPtrs : fd_readdir(p)
    \/ \E delta \in 1 .. MaxGrow : memory_grow(delta)

KeyEvent(k) == keydown(k) \/ keyup(k)

\* Scheduler state of the specification's state machine, read off the
\* program state.
SchedState ==
    IF initPc \in {"module", "awaitFetch", "awaitInstantiate"} THEN "Loading"
    ELSE IF initPc = "failed" THEN "LoadFailed"
    ELSE IF rafPending \/ pc = "inUpdate" THEN "Running"
    ELSE "Stopped"

\* ----------------------------------------------------------- specifications
Init ==
    /\ guest \in Guests
    /\ initPc = "module"
    /\ startFn = FALSE
    /\ updateFn = FALSE
    /\ rafPending = FALSE
    /\ pc = "idle"
    /\ keyState = [k \in Keys |-> FALSE]
    /\ keyPressed = [k \in Keys |-> FALSE]
    /\ keyReleased = [k \in Keys |-> FALSE]
    /\ keyHistory = << >>
    /\ memPages = 0
    /\ memory = << >>
    /\ startCalls = 0
    /\ updateCalls = 0
    /\ frames = 0
    /\ calls = 0
    /\ exited = NoExit
    /\ trapped = FALSE
    /\ ticksSincePress = [k \in Keys |-> 2]
    /\ nEvents = 0
    /\ recorded = << >>
    /\ historySeq = << >>
    /\ lastGrow = NoGrow
    /\ lastAccess = NoAccess
    /\ log = << >>
    /\ lastCall = NoCall
    /\ sizesQueried = FALSE
    /\ lastKeyEvent = [k \in Keys |-> "none"]
    /\ tickMarks = << 0, 0 >>
    /\ opens = << >>
    /\ surface = [p \in Pixels |-> Transparent]
    /\ lastDraw = NoDraw
    /\ prevDraw = NoDraw
    /\ wallClock = 0
    /\ timeReads = << >>
    /\ mouseX = 0
    /\ mouseY = 0
    /\ lastQuery = NoQuery
    /\ lastMove = << >>
    /\ updateArgs = << >>

Loader ==
    \/ ModuleTopLevel
    \/ FetchResolved
    \/ InstantiateOk
    \/ InstantiateFail

\* Loader, scheduler, key events, and a guest whose only host call is
\* proc_exit.
Next ==
    \/ Loader
    \/ FrameCallUpdate
    \/ FrameNoUpdate
    \/ UpdateReturn
    \/ \E code \in ExitCodes : proc_exit(code)
    \/ \E k \in Keys : nEvents < MaxEvents /\ KeyEvent(k)

Spec == Init /\ [][Next]_vars

\* The browser resolves pending promises and delivers animation frames;
\* a guest that was called returns.
FairSpec ==
    /\ Spec
    /\ WF_vars(ModuleTopLevel)
    /\ WF_vars(FetchResolved)
    /\ WF_vars(InstantiateOk \/ InstantiateFail)
    /\ WF_vars(frame)
    /\ WF_vars(UpdateReturn)

\* A typist: the first MaxFree events are arbitrary, after that key
\* FirstKeyCode is pressed and released in turn.
TypistEvent(k) ==
    /\ nEvents < MaxHistEvents
    /\ \/ nEvents < MaxFree /\ KeyEvent(k)
       \/ /\ nEvents >= MaxFree /\ k = FirstKeyCode
          /\ IF keyState[k] THEN keyup(k) ELSE keydown(k)

NextHist ==
    \/ ModuleTopLevel
    \/ FetchResolved
    \/ \E k \in Keys : TypistEvent(k)

\* The history does not depend on the guest: one guest is enough.
InitHist ==
    /\ Init
    /\ guest = [valid |-> TRUE, hasStart |-> TRUE, hasUpdate |-> TRUE, pages |-> 1]

SpecHist == InitHist /\ [][NextHist]_vars

\* Loader, scheduler and a guest that calls grow_memory, fd_readdir and
\* proc_exit; no key events.
NextMem ==
    \/ Loader
    \/ FrameCallUpdate
    \/ FrameNoUpdate
    \/ UpdateReturn
    \/ GuestCall

SpecMem == Init /\ [][NextMem]_vars

\* SpecMem with the browser's scheduling: promises resolve, frames are
\* delivered, and an update that is not ended by an exception returns.
FairSpecMem ==
    /\ SpecMem
    /\ WF_vars(ModuleTopLevel)
    /\ WF_vars(FetchResolved)
    /\ WF_vars(InstantiateOk \/ InstantiateFail)
    /\ WF_vars(frame)
    /\ WF_vars(UpdateReturn)

\* The emulated syscalls that touch guest memory, called by a guest during
\* its first update.
InitSys ==
    /\ Init
    /\ guest.valid /\ guest.hasUpdate /\ ~guest.hasStart

NextSys ==
    \/ ModuleTopLevel
    \/ FetchResolved
    \/ InstantiateOk
    \/ (frames = 0 /\ FrameCallUpdate)
    \/ UpdateReturn
    \/ SysCall

SpecSys == InitSys /\ [][NextSys]_vars

\* The first update of a guest that calls the file-system stubs.
NextFs ==
    \/ ModuleTopLevel \/ FetchResolved \/ InstantiateOk
    \/ (frames = 0 /\ FrameCallUpdate) \/ UpdateReturn
    \/ FsCall
SpecFs == InitSys /\ [][NextFs]_vars

\* The first update of a guest that draws.
NextDraw ==
    \/ ModuleTopLevel \/ FetchResolved \/ InstantiateOk
    \/ (frames = 0 /\ FrameCallUpdate) \/ UpdateReturn
    \/ Draw
SpecDraw == InitSys /\ [][NextDraw]_vars

\* The first update of a guest that reads the time, and the system clock.
NextTime ==
    \/ ModuleTopLevel \/ FetchResolved \/ InstantiateOk
    \/ (frames = 0 /\ FrameCallUpdate) \/ UpdateReturn
    \/ get_time_ms
    \/ ClockAdvance
    \/ ClockSetBack
SpecTime == InitSys /\ [][NextTime]_vars

\* Key events, and the first update of a guest that queries the history
\* at indexes inside and outside it.
NextQuery ==
    \/ ModuleTopLevel \/ FetchResolved \/ InstantiateOk
    \/ (frames = 0 /\ FrameCallUpdate) \/ UpdateReturn
    \/ \E k \in Keys : nEvents < MaxEvents /\ KeyEvent(k)
    \/ \E index \in -1 .. MaxEvents : HistoryQuery(index)
SpecQuery == InitSys /\ [][NextQuery]_vars

\* The pointer moves over the canvas and a key is pressed or released
\* between the ticks of a guest that exports update.
NextPointer ==
    \/ ModuleTopLevel \/ FetchResolved \/ InstantiateOk
    \/ FrameCallUpdate \/ UpdateReturn
    \/ \E p \in Pixels : mousemove(p[1], p[2])
    \/ nEvents < MaxSurfEvents /\ KeyEvent(FirstKeyCode)
SpecPointer == InitHist /\ [][NextPointer]_vars

\* One call of every kind the guest can make in its first update, with key
\* and pointer events before and after it.
SurfCall ==
    \/ fill_rectangle(0, 0, SurfW, SurfH, 255, 0, 0, 255)
    \/ set_pixel(0, 0, 0, 0, 255, 255)
    \/ fd_write(1, 0, 0, 16)
    \/ environ_sizes_get(0, 4)
    \/ environ_get(0, 16)
    \/ fd_fdstat_get(3, 0)
    \/ fd_prestat_get(3, 0)
    \/ fd_filestat_get(3, 0)
    \/ path_filestat_get(3, 0, 24, 2, 0)
    \/ fd_read(0, 0, 1, 16)
    \/ path_open(3, 0, 24, 2, 0, 0, 0, 0, 16)
    \/ fd_readdir(0)
    \/ proc_exit(0)
    \/ grow_memory(1)
    \/ InputQuery(FirstKeyCode)

NextSurf ==
    \/ ModuleTopLevel \/ FetchResolved \/ InstantiateOk
    \/ (frames = 0 /\ FrameCallUpdate) \/ UpdateReturn
    \/ (nEvents < MaxSurfEvents /\ KeyEvent(FirstKeyCode))
    \/ \E pos \in {<< 0, 0 >>, << SurfW - 1, SurfH - 1 >>} : mousemove(pos[1], pos[2])
    \/ SurfCall
SpecSurf == InitSys /\ [][NextSurf]_vars


\* ------------------------------------------------------------------ claims
AllEdgesClear == \A k \in Keys : ~keyPressed[k] /\ ~keyReleased[k]

\* C1: after a keydown of a key that was not held, is_key_pressed(K) is 1
\* during the next update call and 0 during the update after it (and any
\* later one) unless K was pressed anew in between.
C1_PressedEdgeLastsOneTick ==
    pc = "inUpdate" =>
        \A k \in Keys :
            /\ ticksSincePress[k] = 1 => is_key_pressed(k) = 1
            /\ ticksSincePress[k] = 2 => is_key_pressed(k) = 0

\* The second update after a press of a key that is still held.
C1_Witness ==
    /\ pc = "inUpdate" /\ updateCalls >= 2
    /\ \E k \in Keys :
          keyState[k] /\ ticksSincePress[k] = 2 /\ is_key_pressed(k) = 0

\* C2: while update is exported every frame invokes it exactly once, and
\* the step in which update returns leaves no key with pressed or released
\* set and requests the next frame.
C2_TickClearsEveryEdge ==
    [][ /\ (updateFn' => updateCalls' = frames')
        /\ (pc = "inUpdate" /\ pc' = "idle" /\ exited' = exited /\ trapped' = trapped)
              => (AllEdgesClear' /\ rafPending' /\ updateCalls' = updateCalls) ]_vars

\* A tick has just returned and cleared the pressed edge of a held key.
C2_Witness ==
    /\ pc = "idle" /\ rafPending /\ updateCalls >= 1
    /\ \E k \in Keys : keyState[k] /\ ticksSincePress[k] = 1 /\ ~keyPressed[k]

\* C3: once the guest has called proc_exit, whatever the code, update is
\* never invoked again and the scheduler is Stopped in every later state.
C3_ExitStopsForever ==
    [][ exited # NoExit =>
          (updateCalls' = updateCalls /\ SchedState' = "Stopped") ]_vars

\* Exit with code 0, and a key pressed after it.
C3_Witness ==
    /\ exited = {0} /\ SchedState = "Stopped"
    /\ \E k \in Keys : keyPressed[k] /\ ticksSincePress[k] = 0

\* C4: a guest that exports start has it executed exactly once when
\* instantiation has succeeded, before the first update.
C4_StartRunsOnceBeforeUpdate ==
    /\ startCalls <= 1
    /\ (initPc = "done" /\ guest.hasStart) => startCalls = 1

\* C5: a guest that exports update and no start is loaded and update is
\* eventually invoked.
C5_NoStartStillTicks ==
    (guest.valid /\ ~guest.hasStart /\ guest.hasUpdate)
        ~> (initPc = "done" /\ updateCalls >= 1)

\* A guest without start inside its first update.
C5_Witness ==
    /\ ~guest.hasStart /\ guest.hasUpdate
    /\ pc = "inUpdate" /\ updateCalls = 1 /\ startCalls = 0

\* C6: the history never holds more than MAX_HISTORY entries; once more
\* than MAX_HISTORY transitions were recorded it holds exactly MAX_HISTORY
\* and index 0 is not the first transition recorded.
C6_HistoryBounded ==
    /\ get_key_history_count <= MAX_HISTORY
    /\ Len(recorded) >= MAX_HISTORY + 1 =>
          (get_key_history_count = MAX_HISTORY /\ historySeq[1] # 1)

\* 65 transitions were recorded.
C6_Witness == Len(recorded) = MAX_HISTORY + 1 /\ historySeq[1] = 2

\* C7: the history read by index 0 .. count-1 is the last min(n, 64)
\* recorded transitions in the order they occurred; get_key_history_event
\* returns the oldest of them at index 0 and the newest at count-1.
C7_HistoryIsNewestSuffix ==
    LET n == Len(recorded)
        c == get_key_history_count
    IN  /\ c = Min(n, MAX_HISTORY)
        /\ \A i \in 0 .. (c - 1) :
              /\ keyHistory[i + 1] = recorded[n - c + i + 1]
              /\ historySeq[i + 1] = n - c + i + 1
        /\ c > 0 =>
              /\ get_key_history_event(0) = PackEvent(recorded[n - c + 1])
              /\ get_key_history_event(c - 1) = PackEvent(recorded[n])

\* Two entries were evicted, and the evicted ones differ from what is now
\* at index 0 and 1.
C7_Witness ==
    /\ Len(recorded) = MAX_HISTORY + 2
    /\ keyHistory[1] = recorded[3]
    /\ recorded[1] # recorded[3]

\* C8: for every in-range index the packed integer carries the key code
\* in its low bits (key codes are below 2^8) and the transition in a
\* separate higher bit, so that both can be read back and entries that
\* differ pack to different integers.
C8_PackedEventRecoverable ==
    \A i \in 0 .. (get_key_history_count - 1) :
        LET v == get_key_history_event(i)
        IN  /\ v % Pow2(8) = keyHistory[i + 1].key
            /\ (v \div Pow2(8) # 0) = keyHistory[i + 1].pressed
            /\ \A j \in 0 .. (get_key_history_count - 1) :
                  keyHistory[i + 1] # keyHistory[j + 1]
                      => v # get_key_history_event(j)

\* C9: after grow_memory(n), n > 0, an fd_readdir whose four bytes were not
\* inside memory before the call and lie inside the n granted pages
\* succeeds, and one that ends one byte past the new boundary fails.
C9_GrowThenAccess ==
    (lastGrow.made /\ lastGrow.req > 0 /\ lastAccess.made) =>
        LET old == lastGrow.before * PageSize
            new == (lastGrow.before + lastGrow.req) * PageSize
        IN  /\ (lastAccess.ptr + 4 > old /\ lastAccess.ptr + 4 <= new)
                  => lastAccess.ok
            /\ (lastAccess.ptr + 4 = new + 1) => ~lastAccess.ok

\* C10: grow_memory returns the number of pages the memory had before the
\* call.
C10_GrowReturnsPreviousPages ==
    lastGrow.made => lastGrow.ret = lastGrow.before

\* C11: no step makes the guest memory smaller, so the range of a syscall
\* access that succeeded is inside the memory in every later state.
C11_MemoryNeverShrinks ==
    [][ /\ memPages' >= memPages
        /\ \A i \in DOMAIN memory : i \in DOMAIN memory'
        /\ (lastAccess'.made /\ lastAccess'.ok)
              => lastAccess'.ptr + 4 <= memPages' * PageSize ]_vars

\* The guest grew its memory after an access that had succeeded.
C11_Witness ==
    /\ lastAccess.made /\ lastAccess.ok
    /\ lastAccess.size < MemSize

\* Some range that fd_write touches, on the memory as it was before the
\* call, has a byte at or beyond the memory size: an iovec slot, the data
\* of an iovec, or the result slot.
FdWriteLeavesMemory(mem, iovs, n, np) ==
    \/ \E i \in 0 .. (n - 1) :
          \/ iovs + i * 8 + 8 > MemSize
          \/ LET ptr == GetUint32(mem, iovs + i * 8)
                 len == GetUint32(mem, iovs + i * 8 + 4)
             IN  ptr > MemSize \/ len > MemSize - ptr
    \/ np + 4 > MemSize

StatRecordSize(name) ==
    IF name = "fd_fdstat_get" THEN 24
    ELSE IF name = "fd_prestat_get" THEN 8 ELSE 56

\* C12: an fd_write or stat stub one of whose memory ranges has a byte at
\* or beyond the current memory size throws, and the memory is byte for
\* byte what it was before the call.
C12_OutOfBoundsFailsUnchanged ==
    /\ lastCall.name = "fd_write" =>
          (FdWriteLeavesMemory(lastCall.before, lastCall.args[2],
                               lastCall.args[3], lastCall.args[4])
              => (~lastCall.ok /\ memory = lastCall.before))
    /\ lastCall.name \in {"fd_fdstat_get", "fd_prestat_get", "fd_filestat_get"} =>
          (lastCall.args[2] + StatRecordSize(lastCall.name) > MemSize
              => (~lastCall.ok /\ memory = lastCall.before))

\* fd_write with two iovecs in bounds whose second data range ends one
\* byte beyond the memory.
C12_Witness ==
    /\ lastCall.name = "fd_write" /\ ~lastCall.ok
    /\ lastCall.args[2] = 0 /\ lastCall.args[3] = 2 /\ lastCall.args[4] = 16
    /\ GetUint32(lastCall.before, 8) = MemSize - 3
    /\ GetUint32(lastCall.before, 12) = 4

\* C13: after a host call threw a RangeError inside update the scheduler
\* is still Running: the next frame is requested.
C13_TrapAbortsOnlyTheTick ==
    (trapped /\ pc = "idle") => (rafPending /\ SchedState = "Running")

\* C14: with a binary that instantiation rejects the scheduler never is
\* Running, no frame is ever requested or run, and neither start nor
\* update is invoked.
C14_LoadFailureNeverRuns ==
    ~guest.valid =>
        /\ SchedState \in {"Loading", "LoadFailed"}
        /\ ~rafPending /\ pc = "idle" /\ frames = 0
        /\ startCalls = 0 /\ updateCalls = 0
        /\ ~startFn /\ ~updateFn

\* Loading has failed; the key listeners still take events.
C14_Witness == initPc = "failed" /\ nEvents >= 1

RECURSIVE SumOfSizes(_)
SumOfSizes(entries) ==
    IF entries = << >> THEN 0
    ELSE Len(Head(entries)) + 1 + SumOfSizes(Tail(entries))

\* Offset of entry i (from 1) in the block: the sizes of the entries
\* before it, each with its NUL.
EntryOffset(i) == SumOfSizes(SubSeq(ENVIRON, 1, i - 1))

RangesDisjoint(a, alen, b, blen) == a + alen <= b \/ b + blen <= a

\* C15: the size query stores the number of entries and the sum of
\* (length + 1); the fill stores every entry in order followed by one NUL
\* byte, and in slot i of the pointer table the address of entry i
\* (pointer table and buffer not overlapping).
C15_EnvironmentBlockExact ==
    /\ (lastCall.name = "environ_sizes_get" /\ lastCall.ok) =>
          /\ GetUint32(memory, lastCall.args[1]) = Len(ENVIRON)
          /\ GetUint32(memory, lastCall.args[2]) = SumOfSizes(ENVIRON)
    /\ (/\ lastCall.name = "environ_get" /\ lastCall.ok
        /\ RangesDisjoint(lastCall.args[1], 4 * Len(ENVIRON),
                          lastCall.args[2], SumOfSizes(ENVIRON))) =>
          \A i \in 1 .. Len(ENVIRON) :
              LET at == lastCall.args[2] + EntryOffset(i)
              IN  /\ GetUint32(memory, lastCall.args[1] + 4 * (i - 1)) = at
                  /\ \A k \in 1 .. Len(ENVIRON[i]) :
                        memory[at + k - 1] = ENVIRON[i][k]
                  /\ memory[at + Len(ENVIRON[i])] = 0

\* A fill into the last bytes of the memory, after a size query.
C15_Witness ==
    /\ lastCall.name = "environ_get" /\ lastCall.ok /\ sizesQueried
    /\ lastCall.args[1] = 0
    /\ lastCall.args[2] = MemSize - SumOfSizes(ENVIRON)

\* C16 as claimed: a fill call made when no size query preceded it leaves
\* the guest memory as it was.
C16_FillNeedsSizeQuery ==
    (lastCall.name = "environ_get" /\ ~sizesQueried)
        => memory = lastCall.before

\* C16 as amended: a fill call that returns has written the whole block
\* at environ_buf also when no size query preceded it.
C16_FillWithoutSizeQuery ==
    (/\ lastCall.name = "environ_get" /\ lastCall.ok /\ ~sizesQueried
     /\ RangesDisjoint(lastCall.args[1], 4 * Len(ENVIRON),
                       lastCall.args[2], SumOfSizes(ENVIRON))) =>
        \A j \in 1 .. Len(ENVIRON_BUF) :
            memory[lastCall.args[2] + j - 1] = Utf8Encode(ENVIRON_BUF)[j]

\* A fill that returned with no size query before it.
C16_Witness ==
    /\ lastCall.name = "environ_get" /\ lastCall.ok /\ ~sizesQueried
    /\ lastCall.args = << 0, 16 >>

KeyTrackerChanged ==
    \/ keyState' # keyState \/ keyHistory' # keyHistory
    \/ nEvents' # nEvents
    \/ \E k \in Keys : (keyPressed'[k] /\ ~keyPressed[k])
                          \/ (keyReleased'[k] /\ ~keyReleased[k])

\* C17: while update executes no frame is pending, update is not invoked
\* again, and no key listener runs: every key event is a step from idle to
\* idle.
C17_OneTickAtATime ==
    [][ /\ (pc' = "inUpdate" => ~rafPending')
        /\ (pc = "inUpdate" => updateCalls' = updateCalls)
        /\ (KeyTrackerChanged => (pc = "idle" /\ pc' = "idle")) ]_vars

\* The second update, with a transition recorded between the two.
C17_Witness ==
    /\ pc = "inUpdate" /\ updateCalls = 2
    /\ tickMarks[2] > tickMarks[1] /\ tickMarks[1] > 0

\* Fresh presses of k recorded after the previous update began and before
\* the current one did.
PressesBetweenTicks(k) ==
    Cardinality({ i \in (tickMarks[1] + 1) .. tickMarks[2] :
                    recorded[i] = [key |-> k, pressed |-> TRUE] })

\* C18: an update observes is_key_pressed(K) = 1 exactly when K was pressed
\* at least once since the previous update began, however many times: the
\* presses of one interval surface as one edge in one tick.
C18_ManyPressesOneEdge ==
    pc = "inUpdate" =>
        \A k \in Keys :
            is_key_pressed(k) = (IF PressesBetweenTicks(k) >= 1 THEN 1 ELSE 0)

\* A key pressed twice between two ticks.
C18_Witness ==
    pc = "inUpdate" /\ \E k \in Keys : PressesBetweenTicks(k) >= 2

\* C19: is_key_down(K) is 1 exactly when the last key event for K was a
\* keydown, in every state; the step in which update returns and the edges
\* are cleared changes neither a level nor the history.
C19_LevelFollowsLastEvent ==
    [][ /\ \A k \in Keys :
              (is_key_down(k)' = 1) <=> (lastKeyEvent'[k] = "keydown")
        /\ (pc = "inUpdate" /\ pc' = "idle" /\ rafPending')
              => (keyState' = keyState /\ keyHistory' = keyHistory) ]_vars

\* A tick has cleared the edges while one key is down and another was
\* released.
C19_Witness ==
    /\ pc = "idle" /\ rafPending /\ updateCalls >= 1 /\ AllEdgesClear
    /\ \E k \in Keys : lastKeyEvent[k] = "keydown"
    /\ \E k \in Keys : lastKeyEvent[k] = "keyup"

\* C20: fd_write returns the success code whatever its arguments, also
\* when a range it touches lies outside the guest memory.
C20_WriteNeverFails ==
    lastCall.name = "fd_write" => lastCall.ok

\* Bytes of iovec i (from 0) of the table at iovs, and the sum of the
\* lengths of the first n iovecs.
IovecBytes(mem, iovs, i) ==
    LET ptr == GetUint32(mem, iovs + i * 8)
        len == GetUint32(mem, iovs + i * 8 + 4)
    IN  [j \in 1 .. len |-> mem[ptr + j - 1]]

RECURSIVE IovecLenSum(_, _, _)
IovecLenSum(mem, iovs, n) ==
    IF n = 0 THEN 0
    ELSE IovecLenSum(mem, iovs, n - 1) + GetUint32(mem, iovs + (n - 1) * 8 + 4)

\* C21: a step in which fd_write returns stores the sum of the iovec
\* lengths at nwritten_ptr for every descriptor, and appends to the console
\* log the decoded content of every iovec, in iovec order, when the
\* descriptor is 1 or 2, and nothing otherwise.
C21_WriteCountsAndForwards ==
    [][ (calls' = calls + 1 /\ lastCall'.name = "fd_write" /\ lastCall'.ok) =>
          LET fd == lastCall'.args[1]
              iovs == lastCall'.args[2]
              n == lastCall'.args[3]
              np == lastCall'.args[4]
          IN  /\ GetUint32(memory', np) = IovecLenSum(memory, iovs, n)
              /\ log' = IF fd \in {1, 2}
                        THEN log \o [i \in 1 .. n |->
                                       Utf8Decode(IovecBytes(memory, iovs, i - 1))]
                        ELSE log ]_vars

\* Two iovecs of 2 and 3 bytes written to descriptor 2 and forwarded.
C21_Witness ==
    /\ lastCall.name = "fd_write" /\ lastCall.ok
    /\ lastCall.args[1] = 2 /\ lastCall.args[3] = 2
    /\ Len(log) = 2
    /\ GetUint32(memory, lastCall.args[4]) = 5

\* C22: path_open whose result pointer is inside the memory returns and
\* stores the same handle, whatever path, flags and rights were asked for
\* and however many opens came before; all opens of a session stored one
\* and the same handle.
C22_OpenYieldsOneHandle ==
    /\ (lastCall.name = "path_open" /\ InBounds(lastCall.args[9], 4)) =>
          /\ lastCall.ok
          /\ opens # << >>
          /\ GetUint32(memory, lastCall.args[9]) = opens[1].fd
    /\ \A i, j \in DOMAIN opens : opens[i].fd = opens[j].fd

\* Two opens in a row with different paths.
C22_Witness ==
    /\ Len(opens) = 2 /\ opens[1].path # opens[2].path
    /\ lastCall.name = "path_open" /\ lastCall.prev.name = "path_open"
    /\ lastCall.args[5] # lastCall.prev.args[5]

\* C23: a step in which fd_read is called with its count slot inside the
\* memory returns in that same step with update still running, stores 0 in
\* the count slot and changes no other byte, for every descriptor and
\* iovec list; no key event is part of the step.
C23_ReadIsEndOfStream ==
    [][ (/\ calls' = calls + 1 /\ lastCall'.name = "fd_read"
         /\ InBounds(lastCall'.args[4], 4)) =>
          LET np == lastCall'.args[4]
          IN  /\ lastCall'.ok /\ pc' = "inUpdate"
              /\ GetUint32(memory', np) = 0
              /\ \A i \in DOMAIN memory :
                    (i < np \/ i >= np + 4) => memory'[i] = memory[i]
              /\ nEvents' = nEvents /\ frames' = frames ]_vars

\* fd_read of two iovecs from a table that lies beyond the memory.
C23_Witness ==
    /\ lastCall.name = "fd_read" /\ lastCall.ok /\ pc = "inUpdate"
    /\ lastCall.args[2] = MemSize - 4 /\ lastCall.args[3] = 2

StatRecordPtr(call) ==
    IF call.name = "path_filestat_get" THEN call.args[5] ELSE call.args[2]

\* C24: a stat stub whose record lies inside the memory returns, for every
\* descriptor and path; every byte of the record (24, 8, 56, 56 bytes) is
\* zero and every other byte of the memory is what it was before the call.
C24_StatRecordZeroFilled ==
    (/\ lastCall.name \in {"fd_fdstat_get", "fd_prestat_get",
                           "fd_filestat_get", "path_filestat_get"}
     /\ InBounds(StatRecordPtr(lastCall), StatRecordSize(lastCall.name))) =>
        LET ptr == StatRecordPtr(lastCall)
            len == StatRecordSize(lastCall.name)
        IN  /\ lastCall.ok
            /\ DOMAIN memory = DOMAIN lastCall.before
            /\ \A i \in DOMAIN memory :
                  memory[i] = IF i >= ptr /\ i < ptr + len
                              THEN 0 ELSE lastCall.before[i]

\* path_filestat_get with a path that runs beyond the memory, its record
\* the last 56 bytes of the memory.
C24_Witness ==
    /\ lastCall.name = "path_filestat_get" /\ lastCall.ok
    /\ lastCall.args[3] = MemSize - 1
    /\ lastCall.args[5] = MemSize - 56
    /\ memory[MemSize - 57] = 170 /\ memory[MemSize - 1] = 0

\* C25: a valid guest without an update export is instantiated, update is
\* never invoked and nothing faults; every frame requests the next one, up
\* to the last frame delivered.
C25_NoUpdateStillSchedules ==
    /\ [](  (guest.valid /\ ~guest.hasUpdate) =>
              /\ updateCalls = 0 /\ pc = "idle" /\ ~updateFn
              /\ ~trapped /\ exited = NoExit
              /\ (initPc = "done" => rafPending) )
    /\ ((guest.valid /\ ~guest.hasUpdate)
          ~> (initPc = "done" /\ rafPending /\ frames = MaxFrames))

\* Two frames have run for a guest that exports start only.
C25_Witness ==
    /\ guest.valid /\ ~guest.hasUpdate /\ guest.hasStart
    /\ initPc = "done" /\ frames = 2 /\ rafPending /\ startCalls = 0

\* C26: the scheduler leaves Running only in a step in which the guest
\* exits or a host call throws inside update; and while it is Running and
\* frames are still delivered, a further frame runs unless one of the two
\* happens.
C26_TicksUntilExitOrFault ==
    /\ [][ (SchedState = "Running" /\ SchedState' # "Running")
              => (exited' # NoExit \/ trapped') ]_vars
    /\ \A n \in 0 .. (MaxFrames - 1) :
          (SchedState = "Running" /\ frames = n)
              ~> (frames > n \/ exited # NoExit \/ trapped)

\* The last frame delivered is inside update, every earlier update having
\* returned.
C26_Witness ==
    /\ SchedState = "Running" /\ pc = "inUpdate"
    /\ frames = MaxFrames /\ updateCalls = MaxFrames /\ calls >= 1

\* Pixels a drawing call covers, from its name and arguments.
Covers(d, p) ==
    IF d.name = "set_pixel"
    THEN p = << d.args[1], d.args[2] >>
    ELSE IF d.name = "set_pixels_from_to"
    THEN /\ d.args[1] <= p[1] /\ p[1] < d.args[3]
         /\ d.args[2] <= p[2] /\ p[2] < d.args[4]
    ELSE IF d.name = "fill_rectangle"
    THEN /\ \E i \in 0 .. (SurfW - 1) :
               p[1] = i /\ (  (d.args[1] <= i /\ i < d.args[1] + d.args[3])
                           \/ (d.args[1] + d.args[3] <= i /\ i < d.args[1]))
         /\ \E j \in 0 .. (SurfH - 1) :
               p[2] = j /\ (  (d.args[2] <= j /\ j < d.args[2] + d.args[4])
                           \/ (d.args[2] + d.args[4] <= j /\ j < d.args[2]))
    ELSE FALSE

Opaque(d) == d.rgba[4] >= 255
ColourOf(d) ==
    << Channel(d.rgba[1]), Channel(d.rgba[2]), Channel(d.rgba[3]), 255 >>

OffCanvasVars ==
    << loaderVars, keyVars, ticksSincePress, memVars, timeVars, inputVars,
       rafPending, pc, updateCalls, frames, exited, trapped, tickMarks, updateArgs >>

\* C29: a step that changes a pixel is a drawing call made inside update
\* and changes nothing else: key and pointer events, the edge clear after
\* update, the emulated syscalls, the input queries and grow_memory leave
\* every pixel as it was.
C29_OnlyDrawingPaints ==
    [][ /\ surface' # surface =>
              /\ pc = "inUpdate" /\ calls' = calls + 1
              /\ lastDraw'.made /\ prevDraw' = lastDraw
              /\ OffCanvasVars' = OffCanvasVars
        /\ OffCanvasVars' # OffCanvasVars => surface' = surface ]_vars

\* The canvas was painted and update returned; a syscall, a key event and
\* a pointer event have happened and the paint is still there.
C29_Witness ==
    /\ pc = "idle" /\ rafPending /\ updateCalls = 1
    /\ lastDraw.made /\ \A p \in Pixels : surface[p] = ColourOf(lastDraw)
    /\ lastCall.name = "fd_write"
    /\ nEvents >= 1 /\ tickMarks[2] = 0
    /\ mouseX = SurfW - 1

\* C30: of any two values get_time_ms returned in a session, the later is
\* greater than or equal to the earlier.
C30_TimeMonotonic ==
    \A i, j \in DOMAIN timeReads : i < j => timeReads[i] <= timeReads[j]

\* fd_write to descriptor 1 or 2 with one iovec, right after an environ_get
\* whose pointer table is that iovec and whose block holds the iovec's
\* range.
EnvironReadBack ==
    /\ lastCall.name = "fd_write" /\ lastCall.ok
    /\ lastCall.args[1] \in {1, 2} /\ lastCall.args[3] = 1
    /\ lastCall.prev.name = "environ_get" /\ lastCall.prev.ok
    /\ lastCall.prev.args[1] = lastCall.args[2]
    /\ RangesDisjoint(lastCall.prev.args[1], 4 * Len(ENVIRON),
                      lastCall.prev.args[2], SumOfSizes(ENVIRON))
    /\ lastCall.prev.args[2] + EntryOffset(2) <= SumOfSizes(ENVIRON)

C31_RepeatKeydownIsNoOp ==
    [][ /\ nEvents' = nEvents + 1 =>
              /\ \A k \in Keys :
                    (keyState[k] /\ keyState'[k]) =>
                        /\ keyPressed'[k] = keyPressed[k]
                        /\ recorded' # recorded =>
                              recorded'[Len(recorded')] # [key |-> k, pressed |-> TRUE]
              /\ recorded' = recorded =>
                    /\ \E k \in Keys : keyState[k] /\ lastKeyEvent'[k] = "keydown"
                    /\ keyState' = keyState /\ keyPressed' = keyPressed
                    /\ keyReleased' = keyReleased /\ keyHistory' = keyHistory
        /\ \A k \in Keys :
              (pc' = "inUpdate" /\ keyPressed'[k]) => PressesBetweenTicks(k)' >= 1 ]_vars

\* A key went down once, a repeated keydown arrived while it was held, and
\* the second update runs with the key still held and no pressed edge.
C31_Witness ==
    /\ pc = "inUpdate" /\ updateCalls = 2
    /\ nEvents = 2 /\ Len(recorded) = 1
    /\ \E k \in Keys : keyState[k] /\ ~keyPressed[k]

\* C32: for each key code the entries appended to the history alternate
\* between pressed and released, the first being pressed; a released edge
\* is up only for a key whose last entry is a release that followed a press.
C32_EntriesAlternate ==
    /\ \A i \in DOMAIN recorded :
          LET earlier == { j \in 1 .. (i - 1) : recorded[j].key = recorded[i].key }
          IN  IF earlier = {}
              THEN recorded[i].pressed
              ELSE \A j \in earlier :
                      (\A m \in earlier : m <= j)
                          => recorded[j].pressed # recorded[i].pressed
    /\ \A k \in Keys :
          keyReleased[k] => \E i \in DOMAIN recorded :
                               recorded[i] = [key |-> k, pressed |-> TRUE]

\* C33: a key that shows a pressed edge and no released edge is down.
C33_PressedUnreleasedIsDown ==
    \A k \in Keys :
        (is_key_pressed(k) = 1 /\ is_key_released(k) = 0) => is_key_down(k) = 1

\* Inside update a key shows a pressed edge and is not down (it shows a
\* released edge too), another shows a pressed edge only and is down.
C33_Witness ==
    /\ pc = "inUpdate"
    /\ \E k \in Keys : keyPressed[k] /\ ~keyState[k] /\ keyReleased[k]
    /\ \E k \in Keys : keyPressed[k] /\ keyState[k] /\ ~keyReleased[k]

\* C34: an environ_get that throws leaves the guest memory, byte for byte,
\* as it was before the call.
C34_FailedFillLeavesMemory ==
    (lastCall.name = "environ_get" /\ ~lastCall.ok) => memory = lastCall.before

\* C35: a step in which fd_readdir is called accepts its pointer exactly
\* when the four bytes end at or before the size the guest memory has in
\* that step, and then stores into them: right after the guest grew its
\* memory, offsets up to the new size are accepted.
C35_BoundsFollowCurrentSize ==
    [][ (/\ calls' = calls + 1 /\ lastAccess'.made
         /\ memPages' = memPages /\ exited' = exited) =>
          LET ptr == lastAccess'.ptr
          IN  /\ lastAccess'.ok <=> (ptr >= 0 /\ ptr + 4 <= memPages * PageSize)
              /\ lastAccess'.ok => \A i \in ptr .. (ptr + 3) : memory'[i] = 0
              /\ trapped' <=> (trapped \/ ~lastAccess'.ok) ]_vars

\* The guest grew its memory and the next call stored into the last four
\* bytes of the new size.
C35_Witness ==
    /\ memPages > guest.pages /\ calls = 2
    /\ lastAccess.made /\ lastAccess.ok
    /\ lastAccess.ptr = MemSize - 4
    /\ memory[MemSize - 1] = 0

\* C36: a step in which get_key_history_event is called with an index
\* below 0 or at or above the history count returns 0 and changes nothing
\* but the record of the query; 0 is also what a release of key code 0
\* packs to.
C36_OutOfRangeEventIsZero ==
    [][ (/\ calls' = calls + 1 /\ lastQuery'.name = "get_key_history_event"
         /\ (lastQuery'.arg < 0 \/ lastQuery'.arg >= get_key_history_count)) =>
          /\ lastQuery'.ret = 0
          /\ lastQuery'.ret = PackEvent([key |-> 0, pressed |-> FALSE])
          /\ keyVars' = keyVars /\ memVars' = memVars /\ drawVars' = drawVars
          /\ pc' = pc /\ rafPending' = rafPending ]_vars

\* The history holds two entries and the guest asked for index 2, and
\* before that for an index inside the history.
C36_Witness ==
    /\ get_key_history_count = 2 /\ calls = 2
    /\ lastQuery = [name |-> "get_key_history_event", arg |-> 2, ret |-> 0]

\* C37: the step that starts a tick passes update the position of the last
\* mousemove event, or (0, 0) when there has been none; a step that
\* records a pointer move changes no key state.
C37_UpdateGetsLastPointer ==
    [][ /\ (pc = "idle" /\ pc' = "inUpdate") =>
              updateArgs' = IF lastMove = << >> THEN << 0, 0 >> ELSE lastMove
        /\ (lastMove' # lastMove) =>
              /\ keyVars' = keyVars
              /\ ticksSincePress' = ticksSincePress ]_vars

\* The second update runs with a key held, after the pointer moved away
\* from the origin of the canvas.
C37_Witness ==
    /\ pc = "inUpdate" /\ updateCalls = 2
    /\ lastMove = << SurfW - 1, 0 >> /\ updateArgs = lastMove
    /\ keyState[FirstKeyCode]

\* C38: a set_pixels_from_to(x0, y0, x1, y1, colour) step gives the colour
\* to every canvas pixel with x0 <= x < x1 and y0 <= y < y1 and leaves all
\* other pixels as they were; with x1 <= x0 or y1 <= y0 the canvas is
\* unchanged.
C38_BulkFillExactRange ==
    [][ (calls' = calls + 1 /\ lastDraw'.name = "set_pixels_from_to") =>
          LET d == lastDraw'
              x0 == d.args[1]
              y0 == d.args[2]
              x1 == d.args[3]
              y1 == d.args[4]
          IN  /\ \A p \in Pixels :
                    IF x0 <= p[1] /\ p[1] < x1 /\ y0 <= p[2] /\ p[2] < y1
                    THEN surface'[p] = ColourOf(d)
                    ELSE surface'[p] = surface[p]
              /\ (x1 <= x0 \/ y1 <= y0) => surface' = surface ]_vars

\* A bulk fill of the first row from its second pixel, over a canvas that
\* an earlier call of the tick filled whole with another colour.
C38_Witness ==
    /\ pc = "inUpdate" /\ calls = 2
    /\ prevDraw.name = "fill_rectangle" /\ prevDraw.args = << 0, 0, SurfW, SurfH >>
    /\ prevDraw.rgba = << 255, 0, 0, 255 >>
    /\ lastDraw.name = "set_pixels_from_to" /\ lastDraw.args = << 1, 0, SurfW, 1 >>
    /\ surface[<< 0, 0 >>] = << 255, 0, 0, 255 >>
    /\ surface[<< SurfW - 1, 0 >>] = << 0, 0, 255, 255 >>
    /\ surface[<< SurfW - 1, SurfH - 1 >>] = << 255, 0, 0, 255 >>

=============================================================================
